---------------------------- MODULE Spec2Model ----------------------------
(* Model of the quiz backend in src/api/index.py: the users and scores     *)
(* tables, the signed session token kept in the browser's cookie, and the  *)
(* request handlers.  Each handler is an operator from the request and the *)
(* tables to a response (and the new table); the actions apply them.       *)
(*                                                                         *)
(* signup suspends between its SELECT and its INSERT (two awaits on the    *)
(* session), so it is two actions per in-flight request; every other       *)
(* handler writes with at most one statement and is one action.            *)
(*                                                                         *)
(* Time is counted in whole days; the clock is the server's utcnow().      *)
(*                                                                         *)
(* Four specifications share the actions:                                  *)
(*   Spec        the handlers of the users table, signups interleaved;     *)
(*   SpecScores  the handlers of the scores table;                         *)
(*   SpecToken   a session token issued at any time, and the clock run     *)
(*               past its expiry;                                          *)
(*   SpecBoard   the leaderboard applied to bounded scores tables.         *)
EXTENDS Integers, Sequences, FiniteSets, TLC

VARIABLES users, scores, clock, jar, sp, resp

vars == <<users, scores, clock, jar, sp, resp>>

-----------------------------------------------------------------------------
(* Program constants *)

\* timedelta(days=7), the token's and the cookie's lifetime
ExpireDays == 7
\* .limit(10) of the leaderboard query
LeaderboardLimit == 10

(* Bounds of the model *)

\* concurrent in-flight signup requests
NumProcs == 2
\* days the clock runs (past a token's expiry, where tokens are issued)
MaxClock == 1
\* rows of the scores table in the request-driven specifications
MaxScores == 2
\* users of the wide score tables the leaderboard is applied to
NumBoardUsers == 11
\* rows of the small score tables the leaderboard is applied to
MaxBoardRows == 3

Procs == 1..NumProcs

Usernames == {"ani", "budi", "pakguru"}
Roles == {"murid", "guru", "admin"}
Passwords == {"pw1", "pw2"}
Quizzes == {"Matematika Dasar", "Bahasa"}
ScoreValues == {-1, 0, 100}

\* Python's None: a missing cookie, a failed decode, an empty result
None == [none |-> TRUE]

SECRET_KEY == "super-secret-key-jangan-dipakai-di-prod"

-----------------------------------------------------------------------------
(* Passwords.  bcrypt's salt makes two hashes of one password differ, but  *)
(* checkpw accepts exactly the hashes of the same password, which is all   *)
(* the handlers use.                                                       *)

hash_password(password) == [bcrypt |-> password]

check_password(password, hashed_password) ==
    hashed_password = [bcrypt |-> password]

-----------------------------------------------------------------------------
(* Session tokens.  A token is its claims and the key that signed it; a    *)
(* client can present any token, but can sign only with keys it knows.     *)

\* variant: the expiry a day short
create_jwt_token_Short(data, now) ==
    [username |-> data.username, role |-> data.role,
     exp |-> now + ExpireDays - 1, sig |-> SECRET_KEY]

create_jwt_token(data, now) ==
    [username |-> data.username, role |-> data.role,
     exp |-> now + ExpireDays, sig |-> SECRET_KEY]

\* jwt.decode raises InvalidTokenError on a bad signature and
\* ExpiredSignatureError once exp <= now; both are caught and give None.
\* (At exp = now the answer is the installed PyJWT's; no property below
\* rests on it.)
decode_jwt_token(token, now) ==
    IF token.sig # SECRET_KEY THEN None
    ELSE IF token.exp <= now THEN None
    ELSE [username |-> token.username, role |-> token.role, exp |-> token.exp]

-----------------------------------------------------------------------------
(* Responses *)

HTTPException(status_code, detail) ==
    [status |-> status_code, body |-> [detail |-> detail], cookie |-> None]

\* any exception that is not an HTTPException
all_exception_handler ==
    [status |-> 500, body |-> [message |-> "Internal Server Error"],
     cookie |-> None]

Ok(body) == [status |-> 200, body |-> body, cookie |-> None]

-----------------------------------------------------------------------------
(* Tables.  A table is the sequence of its rows in insertion order.  The   *)
(* serial primary key of a row is its position (the gaps a failed insert   *)
(* leaves in the sequence are not modelled: the handlers only test an id   *)
(* for truth), and so is the server-side timestamp of a score.             *)

\* SELECT ... WHERE username = :username
where_username(table, username) ==
    SelectSeq(table, LAMBDA row : row.username = username)

\* the serial primary key
WithId(table, values) == [id |-> Len(table) + 1] @@ values

\* variant: no unique constraint on username
insert_users_NoUnique(table, values) ==
    [raised |-> FALSE, table |-> Append(table, WithId(table, values))]

\* INSERT INTO users: the username column is UNIQUE, a duplicate raises
insert_users(table, values) ==
    IF \E i \in 1..Len(table) : table[i].username = values.username
    THEN [raised |-> TRUE, table |-> table]
    ELSE [raised |-> FALSE, table |-> Append(table, WithId(table, values))]

\* INSERT INTO scores: the table has no constraint besides NOT NULL
insert_scores(table, values) == Append(table, WithId(table, values))

\* Result.scalar_one_or_none() of a SELECT over a Core table: the FIRST
\* COLUMN (the id) of the only row, None without a row, and
\* MultipleResultsFound with more than one.
scalar_one_or_none(rows) ==
    IF Len(rows) = 0 THEN None
    ELSE IF Len(rows) = 1 THEN [scalar |-> rows[1].id]
    ELSE [raised |-> TRUE]

\* Python's truth of that result: None and 0 are false
Truthy(value) == value # None /\ value # [scalar |-> 0]


\* attribute access row.name: AttributeError unless the value has the column
HasAttr(value, name) == name \in DOMAIN value

Reverse(seq) == [i \in 1..Len(seq) |-> seq[Len(seq) + 1 - i]]

-----------------------------------------------------------------------------
(* Handlers.  `token` is request.cookies.get("token"): None without the    *)
(* cookie; `now` is the server's clock.                                    *)

\* signup up to its first await after the SELECT: the response that ends
\* the request, or None when it goes on to insert
signup_select(table, username) ==
    LET user_exists == scalar_one_or_none(where_username(table, username))
    IN  IF user_exists = [raised |-> TRUE] THEN all_exception_handler
        ELSE IF Truthy(user_exists)
             THEN HTTPException(400, "Username sudah terdaftar")
             ELSE None

\* variant: the new account gets the teacher's role
signup_insert_Guru(table, username, password) ==
    LET ins == insert_users(table, [username |-> username,
                                    password |-> hash_password(password),
                                    role |-> "guru"])
    IN  [users |-> ins.table,
         response |-> IF ins.raised THEN all_exception_handler
                      ELSE Ok([message |-> "Akun baru berhasil dibuat"])]

\* signup from the INSERT on: the new table and the response
signup_insert(table, username, password) ==
    LET ins == insert_users(table, [username |-> username,
                                    password |-> hash_password(password),
                                    role |-> "murid"])
    IN  [users |-> ins.table,
         response |-> IF ins.raised THEN all_exception_handler
                      ELSE Ok([message |-> "Akun baru berhasil dibuat"])]

\* login.  `user` is what scalar_one_or_none gave, the id of the row: its
\* truth is the existence check, and user.password is an AttributeError,
\* which all_exception_handler answers.  The lines after it are written
\* for a row.

\* the token and the cookie login sets for a user row
session_cookie(user, now) ==
    [value |-> create_jwt_token([username |-> user.username,
                                 role |-> user.role], now),
     expires |-> now + ExpireDays]

login(table, username, password, now) ==
    LET user == scalar_one_or_none(where_username(table, username))
    IN  IF user = [raised |-> TRUE] THEN all_exception_handler
        ELSE IF ~Truthy(user)
        THEN HTTPException(400, "Nama pengguna atau kata sandi salah")
        ELSE IF ~HasAttr(user, "password") THEN all_exception_handler
        ELSE IF ~check_password(password, user.password)
        THEN HTTPException(400, "Nama pengguna atau kata sandi salah")
        ELSE [status |-> 200,
              body |-> [message |-> "Selamat datang kembali",
                        username |-> user.username, role |-> user.role],
              cookie |-> session_cookie(user, now)]

logout == [status |-> 200, body |-> [message |-> "Berhasil logout"],
           cookie |-> [deleted |-> TRUE]]

ScoreView(rows) ==
    [i \in 1..Len(rows) |->
        [quiz_name |-> rows[i].quiz_name, score |-> rows[i].score]]

get_profile(token, now, usersTable, scoresTable) ==
    IF token = None THEN HTTPException(401, "Tidak terautentikasi")
    ELSE LET payload == decode_jwt_token(token, now)
         IN  IF payload = None
             THEN HTTPException(401, "Token tidak valid atau kedaluwarsa")
             ELSE LET user_profile == scalar_one_or_none(
                          where_username(usersTable, payload.username))
                  IN  IF user_profile = [raised |-> TRUE]
                      THEN all_exception_handler
                      ELSE IF ~Truthy(user_profile)
                      THEN HTTPException(404, "Pengguna tidak ditemukan")
                      ELSE IF ~HasAttr(user_profile, "username")
                      THEN all_exception_handler
                      ELSE Ok([profile |-> [username |-> user_profile.username,
                                            role |-> user_profile.role],
                               scores |-> ScoreView(Reverse(where_username(
                                              scoresTable, payload.username)))])

\* variant: the token is not decoded, the row goes under a fixed name
submit_quiz_FormName(token, now, quiz_name, score, table) ==
    IF token = None
    THEN [scores |-> table,
          response |-> HTTPException(401, "Tidak terautentikasi")]
    ELSE [scores |-> insert_scores(table, [username |-> "ani",
                                           quiz_name |-> quiz_name,
                                           score |-> score]),
          response |-> Ok([message |-> "Skor kuis berhasil disimpan"])]

\* the new scores table and the response
submit_quiz(token, now, quiz_name, score, table) ==
    IF token = None
    THEN [scores |-> table,
          response |-> HTTPException(401, "Tidak terautentikasi")]
    ELSE LET payload == decode_jwt_token(token, now)
         IN  IF payload = None
             THEN [scores |-> table,
                   response |-> HTTPException(
                                  401, "Token tidak valid atau kedaluwarsa")]
             ELSE [scores |-> insert_scores(table,
                                  [username |-> payload.username,
                                   quiz_name |-> quiz_name, score |-> score]),
                   response |-> Ok([message |->
                                      "Skor kuis berhasil disimpan"])]

\* variant: the role is tested before the token is verified
get_murid_RoleFirst(token, now, table) ==
    IF token = None THEN HTTPException(401, "Tidak terautentikasi")
    ELSE IF token.role # "guru" THEN HTTPException(403, "Akses ditolak")
    ELSE IF decode_jwt_token(token, now) = None
    THEN HTTPException(401, "Token tidak valid atau kedaluwarsa")
    ELSE Ok([murid |-> {}])

\* The rows with role murid ordered by username: usernames are unique, so
\* the ordered list is given by the set of its entries.
get_murid(token, now, table) ==
    IF token = None THEN HTTPException(401, "Tidak terautentikasi")
    ELSE LET payload == decode_jwt_token(token, now)
         IN  IF payload = None
             THEN HTTPException(401, "Token tidak valid atau kedaluwarsa")
             ELSE IF payload.role # "guru"
             THEN HTTPException(403, "Akses ditolak")
             ELSE Ok([murid |->
                        {[username |-> table[i].username,
                          role |-> table[i].role] :
                            i \in {j \in 1..Len(table) :
                                     table[j].role = "murid"}}])

\* The scores of `username`, newest first
murid_scores(token, now, username, table) ==
    IF token = None THEN HTTPException(401, "Tidak terautentikasi")
    ELSE LET payload == decode_jwt_token(token, now)
         IN  IF payload = None
             THEN HTTPException(401, "Token tidak valid atau kedaluwarsa")
             ELSE IF payload.role # "guru"
             THEN HTTPException(403, "Akses ditolak")
             ELSE Ok([scores |->
                        ScoreView(Reverse(where_username(table, username)))])


-----------------------------------------------------------------------------
(* The leaderboard query: GROUP BY username, ORDER BY total_score DESC,    *)
(* LIMIT 10.  average_score is kept in hundredths (50.0 is 5000).          *)

RECURSIVE SumScores(_)
SumScores(rows) ==
    IF Len(rows) = 0 THEN 0 ELSE rows[1].score + SumScores(Tail(rows))

\* variant: the average cut after two decimals
Round2_Floor(sum, count) == (100 * sum) \div count

\* float(round(avg, 2)) of the Decimal sum/count, in hundredths: Decimal
\* rounds half to even.  \div rounds down, also below zero.
Round2(sum, count) ==
    LET q == (100 * sum) \div count
        r == (100 * sum) - q * count
    IN  IF 2 * r < count THEN q
        ELSE IF 2 * r > count THEN q + 1
        ELSE IF q % 2 = 0 THEN q ELSE q + 1

\* one row of the grouped query
Aggregate(table, username) ==
    LET rows == where_username(table, username)
    IN  [username |-> username,
         total_score |-> SumScores(rows),
         average_score |-> Round2(SumScores(rows), Len(rows)),
         quiz_count |-> Len(rows)]

\* ORDER BY total_score DESC LIMIT n: every order the database may return;
\* it breaks a tie as it likes.
RECURSIVE OrderByTotalDesc(_, _)
OrderByTotalDesc(groups, n) ==
    IF n = 0 \/ groups = {} THEN {<< >>}
    ELSE UNION {{<<g>> \o rest : rest \in OrderByTotalDesc(groups \ {g}, n - 1)} :
                  g \in {a \in groups : \A b \in groups :
                                           b.total_score <= a.total_score}}

\* variant: the query without LIMIT
leaderboard_NoLimit(table) ==
    LET groups == {Aggregate(table, table[i].username) : i \in 1..Len(table)}
    IN  {Ok([leaderboard |->
               [i \in 1..Len(rows) |->
                  [rank |-> i,
                   username |-> rows[i].username,
                   total_score |-> rows[i].total_score,
                   average_score |-> rows[i].average_score,
                   quiz_count |-> rows[i].quiz_count]]]) :
           rows \in OrderByTotalDesc(groups, Cardinality(groups))}

\* the responses leaderboard may give for a scores table
leaderboard(table) ==
    LET groups == {Aggregate(table, table[i].username) : i \in 1..Len(table)}
    IN  {Ok([leaderboard |->
               [i \in 1..Len(rows) |->
                  [rank |-> i,
                   username |-> rows[i].username,
                   total_score |-> rows[i].total_score,
                   average_score |-> rows[i].average_score,
                   quiz_count |-> rows[i].quiz_count]]]) :
           rows \in OrderByTotalDesc(groups, LeaderboardLimit)}

-----------------------------------------------------------------------------
(* State *)

Idle == [pc |-> "idle"]

SeedGuru == <<[id |-> 1, username |-> "pakguru",
               password |-> hash_password("pw1"), role |-> "guru"]>>

SeedUsers == Append(SeedGuru, [id |-> 2, username |-> "ani",
                               password |-> hash_password("pw2"),
                               role |-> "murid"])

NoResponse == [op |-> "none", status |-> 0, body |-> None, cookie |-> None]

Resp(op, r) ==
    [op |-> op, status |-> r.status, body |-> r.body, cookie |-> r.cookie]

\* A fresh deployment: the teacher's account is seeded, nobody has signed up
Init ==
    /\ users = SeedGuru
    /\ scores = << >>
    /\ clock = 0
    /\ jar = None
    /\ sp = [p \in Procs |-> Idle]
    /\ resp = NoResponse

\* The tokens a request may carry: signed with the server's key for an
\* identity (a student, the teacher, a role that is neither) and an expiry
\* (passed from the start, passing with the first tick, never passing), or
\* signed with another key.
Identities ==
    {[username |-> "ani", role |-> "murid"],
     [username |-> "pakguru", role |-> "guru"],
     [username |-> "ani", role |-> "admin"]}

Tokens ==
    {[username |-> id.username, role |-> id.role, exp |-> e,
      sig |-> SECRET_KEY] : id \in Identities, e \in {0, 1, MaxClock + 1}}
    \cup {[username |-> "ani", role |-> "guru", exp |-> MaxClock + 1,
           sig |-> "kunci-lain"]}

Cookies == {None} \cup Tokens \cup (IF jar = None THEN {} ELSE {jar.value})

-----------------------------------------------------------------------------
(* Actions *)

SignupSelect(p, username, password) ==
    /\ sp[p].pc = "idle"
    /\ LET r == signup_select(users, username)
       IN  IF r = None
           THEN /\ sp' = [sp EXCEPT ![p] = [pc |-> "insert",
                                            username |-> username,
                                            password |-> password]]
                /\ resp' = resp
           ELSE /\ sp' = sp
                /\ resp' = Resp("signup", r)
    /\ UNCHANGED <<users, scores, clock, jar>>

SignupInsert(p) ==
    /\ sp[p].pc = "insert"
    /\ LET out == signup_insert(users, sp[p].username, sp[p].password)
       IN  /\ users' = out.users
           /\ resp' = Resp("signup", out.response)
    /\ sp' = [sp EXCEPT ![p] = Idle]
    /\ UNCHANGED <<scores, clock, jar>>

Login(username, password) ==
    /\ LET r == login(users, username, password, clock)
       IN  /\ resp' = Resp("login", r)
           /\ jar' = IF r.cookie = None THEN jar
                     ELSE r.cookie @@ [set_at |-> clock]
    /\ UNCHANGED <<users, scores, clock, sp>>

Logout ==
    /\ resp' = Resp("logout", logout)
    /\ jar' = None
    /\ UNCHANGED <<users, scores, clock, sp>>

GetProfile(token) ==
    /\ resp' = Resp("profile", get_profile(token, clock, users, scores))
    /\ UNCHANGED <<users, scores, clock, jar, sp>>

SubmitQuiz(token, quiz_name, score) ==
    /\ Len(scores) < MaxScores
    /\ LET out == submit_quiz(token, clock, quiz_name, score, scores)
       IN  /\ scores' = out.scores
           /\ resp' = Resp("submit_quiz", out.response)
    /\ UNCHANGED <<users, clock, jar, sp>>

GetMurid(token) ==
    /\ resp' = Resp("murid", get_murid(token, clock, users))
    /\ UNCHANGED <<users, scores, clock, jar, sp>>

MuridScores(token, username) ==
    /\ resp' = Resp("murid_scores", murid_scores(token, clock, username, scores))
    /\ UNCHANGED <<users, scores, clock, jar, sp>>

Leaderboard ==
    /\ \E r \in leaderboard(scores) : resp' = Resp("leaderboard", r)
    /\ UNCHANGED <<users, scores, clock, jar, sp>>

Tick(limit) ==
    /\ clock < limit
    /\ clock' = clock + 1
    /\ UNCHANGED <<users, scores, jar, sp, resp>>

\* Accounts: the handlers that read or write the users table
Next ==
    \/ \E p \in Procs, u \in Usernames, pw \in Passwords : SignupSelect(p, u, pw)
    \/ \E p \in Procs : SignupInsert(p)
    \/ \E u \in Usernames, pw \in Passwords : Login(u, pw)
    \/ Logout
    \/ \E t \in Cookies : GetProfile(t)
    \/ \E t \in Cookies : GetMurid(t)
    \/ Tick(MaxClock)

Spec == Init /\ [][Next]_vars


-----------------------------------------------------------------------------
(* Scores: the handlers that read or write the scores table, over a users  *)
(* table that holds the teacher and one student.  signup is the only       *)
(* writer of users and reads no score, so it is left to Spec.              *)

InitScores ==
    /\ users = SeedUsers
    /\ scores = << >>
    /\ clock = 0
    /\ jar = None
    /\ sp = [p \in Procs |-> Idle]
    /\ resp = NoResponse

NextScores ==
    \/ \E t \in Cookies, q \in Quizzes, s \in ScoreValues : SubmitQuiz(t, q, s)
    \/ \E t \in Cookies : GetMurid(t)
    \/ \E t \in Cookies, u \in Usernames : MuridScores(t, u)
    \/ \E t \in Cookies : GetProfile(t)
    \/ Leaderboard
    \/ Tick(MaxClock)

SpecScores == InitScores /\ [][NextScores]_vars

-----------------------------------------------------------------------------
(* Tokens over time: session_cookie is applied to a user row at any time,  *)
(* the clock runs past the expiry, and the browser presents the cookie it  *)
(* holds.                                                                  *)

IssueSession(user) ==
    /\ jar' = session_cookie(user, clock) @@ [set_at |-> clock]
    /\ UNCHANGED <<users, scores, clock, sp, resp>>

JarCookie == IF jar = None THEN {} ELSE {jar.value}

NextToken ==
    \/ \E i \in 1..Len(users) : IssueSession(users[i])
    \/ Tick(MaxClock + ExpireDays)
    \/ \E t \in JarCookie : GetMurid(t)
    \/ \E t \in JarCookie : GetProfile(t)

SpecToken == InitScores /\ [][NextToken]_vars

-----------------------------------------------------------------------------
(* The leaderboard as a function of the scores table: the table is drawn   *)
(* from the small tables of two users and from wide tables of up to        *)
(* NumBoardUsers users, with and without ties.                             *)

BoardNames == <<"u01", "u02", "u03", "u04", "u05", "u06", "u07", "u08",
                "u09", "u10", "u11", "u12", "u13", "u14">>

BoardValues ==
    [username : {"ani", "budi"}, quiz_name : {"Bahasa"},
     score : {-1, 0, 50, 100}]

MakeTable(values) == [i \in 1..Len(values) |-> [id |-> i] @@ values[i]]

SmallTables ==
    UNION {{MakeTable(v) : v \in [1..n -> BoardValues]} : n \in 0..MaxBoardRows}

\* user i scores 10 * ceil(i / share): share = 2 ties the users in pairs
WideTables ==
    {[i \in 1..n |-> [id |-> i, username |-> BoardNames[i],
                      quiz_name |-> "Bahasa",
                      score |-> 10 * ((i + share - 1) \div share)]] :
        n \in 0..NumBoardUsers, share \in {1, 2}}

InitBoard ==
    /\ users = SeedGuru
    /\ scores \in SmallTables \cup WideTables
    /\ clock = 0
    /\ jar = None
    /\ sp = [p \in Procs |-> Idle]
    /\ resp = NoResponse

NextBoard == Leaderboard

SpecBoard == InitBoard /\ [][NextBoard]_vars


-----------------------------------------------------------------------------
(* Properties *)

\* A token that verifies: signed with the server's key and not expired
Valid(token, now) ==
    token # None /\ token.sig = SECRET_KEY /\ token.exp > now

TeacherResponses(token) ==
    {get_murid(token, clock, users)}
    \cup {murid_scores(token, clock, u, scores) : u \in Usernames}

\* C1: both teacher-only operations answer 401 (never 403) to a request
\* with no token or with a token that fails verification, 403 to a valid
\* token of role murid, and give data only to a valid token whose role is
\* exactly guru.
C1_TeacherOnly ==
    \A t \in Cookies : \A r \in TeacherResponses(t) :
        /\ r.status \in {200, 401, 403}
        /\ ~Valid(t, clock) => r.status = 401
        /\ (Valid(t, clock) /\ t.role = "murid") => r.status = 403
        /\ r.status = 200 <=> (Valid(t, clock) /\ t.role = "guru")

C1_Witness ==
    /\ resp.op = "murid_scores" /\ resp.status = 403
    /\ \E t \in Cookies : ~Valid(t, clock) /\ t # None /\ t.role = "guru"
    /\ \E t \in Cookies : Valid(t, clock) /\ t.role = "murid"

\* C2: the scores table holds exactly one row for every (user, quiz_name)
\* that was submitted.
C2_OneRowPerUserQuiz ==
    \A i, j \in 1..Len(scores) :
        (scores[i].username = scores[j].username
         /\ scores[i].quiz_name = scores[j].quiz_name) => i = j

\* C3: the token session_cookie issued at time t decodes to its claims at
\* every time before t + 7 days, and after t + 7 days it decodes to None
\* and every authenticated endpoint answers 401.
C3_TokenWindow ==
    jar # None =>
        LET token == jar.value
            payload == decode_jwt_token(token, clock)
        IN  /\ clock < jar.set_at + ExpireDays =>
                /\ payload # None
                /\ payload.username = token.username
                /\ payload.role = token.role
            /\ clock > jar.set_at + ExpireDays =>
                /\ payload = None
                /\ get_profile(token, clock, users, scores).status = 401
                /\ get_murid(token, clock, users).status = 401
                /\ \A u \in Usernames :
                      murid_scores(token, clock, u, scores).status = 401
                /\ \A q \in Quizzes, s \in ScoreValues :
                      LET out == submit_quiz(token, clock, q, s, scores)
                      IN  out.response.status = 401 /\ out.scores = scores

C3_Witness ==
    /\ jar # None
    /\ clock > jar.set_at + ExpireDays
    /\ resp.op = "murid" /\ resp.status = 401
    /\ jar.value.role = "guru"

\* C4: a failed login answers the same whether or not the username is
\* registered: the failure just returned equals every other failure the
\* same users table can give, and sets no cookie.
C4_LoginFailuresIndistinguishable ==
    (resp.op = "login" /\ resp.status # 200) =>
        /\ resp.cookie = None
        /\ \A u \in Usernames, pw \in Passwords :
              LET r == login(users, u, pw, clock)
              IN  r.status # 200 =>
                     r.status = resp.status /\ r.body = resp.body

Taken(username) == \E i \in 1..Len(users) : users[i].username = username

AddsOneMurid(username) ==
    /\ Len(users') = Len(users) + 1
    /\ SubSeq(users', 1, Len(users)) = users
    /\ users'[Len(users')].username = username
    /\ users'[Len(users')].role = "murid"

SessionCookies ==
    {c \in {resp'.cookie} : c # None /\ "value" \in DOMAIN c}

\* C5 as stated: a signup whose username is taken fails with 409/400 and
\* leaves users unchanged; one whose username is free adds exactly one
\* user, with role murid, and returns a session credential.
C5_SignupReturnsSession ==
    [][resp'.op = "signup" =>
       /\ \A p \in Procs, u \in Usernames, pw \in Passwords :
             (SignupSelect(p, u, pw) /\ Taken(u)) =>
                 resp'.status \in {400, 409} /\ users' = users
       /\ \A p \in Procs :
             (SignupInsert(p) /\ ~Taken(sp[p].username)) =>
                 /\ AddsOneMurid(sp[p].username)
                 /\ resp'.status = 200
                 /\ SessionCookies # {}]_vars

\* C5 as amended: a signup whose username is taken when it looks the name
\* up fails with 400 and leaves users unchanged; one whose username is
\* still free when it inserts adds exactly one user, with that username
\* and role murid, and returns only a success message, no cookie; one
\* whose username was taken between its lookup and its insert answers 500
\* and leaves users unchanged.
C5_Signup ==
    [][resp'.op = "signup" =>
       /\ \A p \in Procs, u \in Usernames, pw \in Passwords :
             (SignupSelect(p, u, pw) /\ Taken(u)) =>
                 resp'.status = 400 /\ users' = users
       /\ \A p \in Procs :
             SignupInsert(p) =>
                 IF Taken(sp[p].username)
                 THEN resp'.status = 500 /\ users' = users
                 ELSE /\ AddsOneMurid(sp[p].username)
                      /\ resp'.status = 200
                      /\ resp'.body = [message |-> "Akun baru berhasil dibuat"]
                      /\ resp'.cookie = None]_vars

C5_Witness ==
    /\ resp.op = "signup" /\ resp.status = 200
    /\ \E i \in 1..Len(users) :
          users[i].username = "ani" /\ users[i].role = "murid"


Board == resp.body.leaderboard

UsersWithScores == {scores[i].username : i \in 1..Len(scores)}

Min(a, b) == IF a <= b THEN a ELSE b

\* C6 as stated: the leaderboard has at most min(10, users with a score)
\* entries, strictly descending by total_score, the entry at 0-based
\* position i having rank i + 1.
C6_StrictlyDescending ==
    resp.op = "leaderboard" =>
        /\ Len(Board) <= Min(LeaderboardLimit, Cardinality(UsersWithScores))
        /\ \A i \in 1..Len(Board) : Board[i].rank = i
        /\ \A i, j \in 1..Len(Board) :
              i < j => Board[i].total_score > Board[j].total_score

\* C6 as amended: the leaderboard has at most min(10, users with a score)
\* entries, in non-increasing order of total_score (users with equal
\* totals follow each other in either order), the entry at 0-based
\* position i having rank i + 1.
C6_TopNSorted ==
    resp.op = "leaderboard" =>
        /\ Len(Board) <= Min(LeaderboardLimit, Cardinality(UsersWithScores))
        /\ \A i \in 1..Len(Board) : Board[i].rank = i
        /\ \A i, j \in 1..Len(Board) :
              i < j => Board[i].total_score >= Board[j].total_score

C6_Witness ==
    /\ resp.op = "leaderboard"
    /\ Cardinality(UsersWithScores) > LeaderboardLimit
    /\ Len(Board) = LeaderboardLimit
    /\ \E i \in 1..(Len(Board) - 1) :
          Board[i].total_score = Board[i + 1].total_score

RowsOf(username) == {i \in 1..Len(scores) : scores[i].username = username}

RECURSIVE SumOver(_)
SumOver(rows) ==
    IF rows = {} THEN 0
    ELSE LET i == CHOOSE k \in rows : TRUE
         IN  scores[i].score + SumOver(rows \ {i})

Abs(n) == IF n < 0 THEN -n ELSE n

\* C7: every leaderboard entry aggregates exactly the rows of its own
\* user: total_score their sum, quiz_count their number, average_score
\* their mean rounded to 2 decimals (within half a hundredth of it); a
\* user has at most one entry, and none without a row.
C7_EntryAggregates ==
    resp.op = "leaderboard" =>
        /\ \A i \in 1..Len(Board) :
              LET e == Board[i]
                  rows == RowsOf(e.username)
              IN  /\ rows # {}
                  /\ e.quiz_count = Cardinality(rows)
                  /\ e.total_score = SumOver(rows)
                  /\ 2 * Abs(100 * SumOver(rows)
                             - e.average_score * Cardinality(rows))
                        <= Cardinality(rows)
        /\ \A i, j \in 1..Len(Board) :
              Board[i].username = Board[j].username => i = j
        /\ scores = MakeTable(<<[username |-> "ani", quiz_name |-> "Bahasa",
                                 score |-> 100],
                                [username |-> "ani", quiz_name |-> "Bahasa",
                                 score |-> 0],
                                [username |-> "ani", quiz_name |-> "Bahasa",
                                 score |-> 50]>>)
              => Board = <<[rank |-> 1, username |-> "ani",
                            total_score |-> 150, average_score |-> 5000,
                            quiz_count |-> 3]>>

C7_Witness ==
    /\ resp.op = "leaderboard"
    /\ Len(scores) = 3
    /\ \E i \in 1..Len(Board) :
          /\ Board[i].total_score = 150
          /\ Board[i].quiz_count = 3
          /\ Board[i].average_score = 5000
    /\ {scores[i].score : i \in RowsOf("ani")} = {0, 50, 100}

\* C8: no row of the scores table has a negative score (a submission
\* with a negative score is rejected and stores nothing).
C8_NoNegativeScore ==
    \A i \in 1..Len(scores) : scores[i].score >= 0

UniqueUsernames ==
    \A i, j \in 1..Len(users) :
        users[i].username = users[j].username => i = j

\* C9: under every interleaving of signups the users table never holds
\* two rows with one username; a signup that passed its lookup and finds
\* the name taken when it inserts ends in an error and adds no row.
C9_SignupRace ==
    /\ []UniqueUsernames
    /\ [][resp'.op = "signup" =>
           \A p \in Procs :
             (SignupInsert(p) /\ Taken(sp[p].username)) =>
                 resp'.status >= 400 /\ users' = users]_vars

C9_Witness ==
    /\ resp.op = "signup" /\ resp.status = 500
    /\ \E i \in 1..Len(users) : users[i].username = "ani"
    /\ \A p \in Procs : sp[p].pc = "idle"

\* C10: submit_quiz with a missing, invalid or expired token answers 401
\* and changes neither table; with a valid token it appends exactly one
\* row, under the username the token carries, and changes no other row
\* and no user.
C10_SubmitFrame ==
    [][resp'.op = "submit_quiz" =>
       \A t \in Cookies, q \in Quizzes, s \in ScoreValues :
          SubmitQuiz(t, q, s) =>
              /\ users' = users
              /\ IF Valid(t, clock)
                 THEN /\ Len(scores') = Len(scores) + 1
                      /\ SubSeq(scores', 1, Len(scores)) = scores
                      /\ scores'[Len(scores')].username = t.username
                      /\ resp'.status = 200
                 ELSE /\ scores' = scores
                      /\ resp'.status = 401]_vars

C10_Witness ==
    /\ resp.op = "submit_quiz" /\ resp.status = 200
    /\ Len(scores) = 2
    /\ scores[1].username = "ani" /\ scores[2].username = "pakguru"

=============================================================================
